---- MODULE Spec2Model ----
(***************************************************************************)
(* State-machine model of the Todo backend (auth_backend.py): a FastAPI    *)
(* application whose handlers read and write user and task documents of    *)
(* one CouchDB database.  Every request is handled by a worker; a handler  *)
(* is a sequence of steps, one step per access to the database, so that    *)
(* requests served concurrently interleave between their accesses.         *)
(***************************************************************************)
EXTENDS Integers, Sequences, FiniteSets, TLC

\* ------------------------------------------------------------------ bounds
MaxUuid == 3      \* number of uuid4() values a run of Spec may draw
ConcMaxUuid == 3  \* the same for ConcSpec
ListMaxUuid == 4      \* the same for ListSpec
ListMaxClock == 1     \* latest time of the clock in ListSpec
UpdateMaxUuid == 2    \* uuid4() values in UpdateSpec
UpdateMaxClock == 1   \* latest time of the clock in UpdateSpec
FrameMaxUuid == 3     \* uuid4() values in FrameSpec
FrameMaxClock == 1    \* latest time of the clock in FrameSpec
RegisterMaxUuid == 3  \* uuid4() values in RegisterSpec

\* ------------------------------------------------------------ input domains
Workers == {1, 2}                  \* requests served at the same time
Emails == {"a@x", "b@x"}
Passwords == {"p", "q"}

\* Python's None and JSON's null; an Optional[T] value, and the value of a
\* field of a task, is None or <<v>>.
None == <<>>
Some(v) == <<v>>

VARIABLES
    db,       \* the CouchDB database: document id -> document
    req,      \* per worker: the request it is serving (handler position, locals)
    issued,   \* the uuid4() values drawn so far
    now,      \* the last value utcnow() returned
    sessions, \* history: the session tokens handed out, for whom and by what
    deleted   \* history: the tasks whose delete was answered 200

vars == <<db, req, issued, now, sessions, deleted>>

\* ------------------------------------------------------- helper functions
\* hashlib.sha256(password.encode('utf-8')).hexdigest()
sha256_hexdigest(s) ==
    CASE s = "p" -> "148de9c5a7a44d19e56cd9ae1a554bf67847afb0c58f6e12fa29ac7ddfca9940"
      [] s = "q" -> "8e35c2cd3bf6641bdb0e2050b76932cbb2e6034a0ddacc1d9bea82a6ba57f7cf"

hash_password(password) == sha256_hexdigest(password)

verify_password_always(input_password, hashed_password) == TRUE

verify_password(input_password, hashed_password) ==
    hash_password(input_password) = hashed_password

\* str(uuid.uuid4()): a value not drawn before (a random 122-bit value).  The
\* values are compared for equality only, except by the order of the find
\* results in get_user_tasks; env.any_uuid says whether a run draws any unused
\* value or, the runs being the same up to the names of the values, the first.
Uuid(n) == ToString(n)
Unused(env) == {n \in 1..env.max_uuid : Uuid(n) \notin issued}
uuid4(env) ==
    IF Unused(env) = {} THEN {}
    ELSE IF env.any_uuid THEN {Uuid(n) : n \in Unused(env)}
    ELSE {Uuid(CHOOSE n \in Unused(env) : \A m \in Unused(env) : n <= m)}

generate_session_token(env) == uuid4(env)

\* f"user_{email}" and f"task_{uuid}"
UserId(email) == "user_" \o email
TaskId(u) == "task_" \o u

\* datetime.utcnow(): the clock does not go back; it may stand still between
\* two reads.  isoformat() strings of such instants compare as the instants.
utcnow(env) == {t \in now..(now + 1) : t <= env.max_clock}

\* ------------------------------------------------------------ the database
\* `id in db`
InDb(d, id) == id \in DOMAIN d

\* The database after an accepted save of `doc` / delete of document `id`.
Put(d, doc) == [k \in DOMAIN d \cup {doc._id} |-> IF k = doc._id THEN doc ELSE d[k]]
Remove(d, id) == [k \in DOMAIN d \ {id} |-> d[k]]

\* doc.get(field): None when the document has no such field.
Get(doc, field) == IF field \in DOMAIN doc THEN Some(doc[field]) ELSE None

\* db.find({"selector": {"type": "user", "session_token": token}, "limit": 1})
\* as a set: the user documents whose session_token is `token`.
FindUsersByToken(d, token) ==
    {id \in DOMAIN d : d[id].type = "user" /\ d[id].session_token = token}

\* CouchDB accepts a save or delete of an existing document only when the
\* _rev of the copy presented is the stored _rev, and every accepted write
\* gives the document a new _rev.  So a worker's copy carries the current
\* _rev exactly when no write of that document was accepted since the worker
\* read it: the copy's `rev_ok` flag, cleared by Invalidate on every accepted
\* write of the document by another worker.
Copy(doc) == [doc |-> doc, rev_ok |-> TRUE]

Stale(c, id) ==
    IF c # None /\ c[1].doc._id = id THEN Some([c[1] EXCEPT !.rev_ok = FALSE]) ELSE c

Invalidate(r, w, id) ==
    [v \in Workers |->
        IF v = w \/ r[v].pc \in {"idle", "done"} THEN r[v]
        ELSE [r[v] EXCEPT !.user_doc = Stale(@, id), !.task_doc = Stale(@, id)]]

\* ---------------------------------------------------------------- requests
\* A request is modelled from its first access to the database on: its
\* arrival and that access are one step (nothing of the request is visible
\* to other requests before).  Every later access is a step of its own.
Idle == [pc |-> "idle"]

\* A finished request's response is handed over before anything else is
\* done (the hand-over, Return, touches nothing the requests share).
Quiet == \A v \in Workers : req[v].pc # "done"

\* Worker w is about to take the step `pc` of its handler.
At(w, pc) == Quiet /\ req[w].pc = pc

\* Requests are given to the first free worker (workers are interchangeable).
Free(w) ==
    /\ At(w, "idle")
    /\ \A v \in Workers : v < w => req[v].pc # "idle"

\* A request inside its handler; no local document read yet.
Begin(op, pc, args, current_user) ==
    [pc |-> pc, op |-> op, args |-> args, current_user |-> current_user,
     user_doc |-> None, task_doc |-> None, wrote |-> {}]

\* History: the request r has saved or deleted the document `id`.
Wrote(r, id) == [r EXCEPT !.wrote = @ \cup {id}]

DoneFailed(r, status, detail, body) ==
    [pc |-> "done", op |-> r.op, args |-> r.args, current_user |-> r.current_user,
     status |-> 500, detail |-> detail, body |-> body, wrote |-> r.wrote]

\* The response of a finished request, with what the request was.
Done(r, status, detail, body) ==
    [pc |-> "done", op |-> r.op, args |-> r.args, current_user |-> r.current_user,
     status |-> status, detail |-> detail, body |-> body, wrote |-> r.wrote]

Init ==
    /\ db = [id \in {} |-> None]
    /\ req = [w \in Workers |-> Idle]
    /\ issued = {}
    /\ now = 0
    /\ sessions = {}
    /\ deleted = {}

\* The worker hands the response over and is free for the next request.
Return(w) ==
    /\ req[w].pc = "done"
    /\ req' = [req EXCEPT ![w] = Idle]
    /\ UNCHANGED <<db, issued, now, sessions, deleted>>

\* ------------------------------------------------------- POST /api/register
\* user_id = f"user_{user.email}"; if user_id in db: raise HTTPException(400)
EmailTakenNever(d, user) == FALSE

EmailTaken(d, user) == InDb(d, UserId(user.email))

StartRegister(w, env) ==
    /\ Free(w)
    /\ \E user \in env.registers :
          LET r == Begin("register", "register_save", user, None) IN
          req' = [req EXCEPT ![w] =
                    IF EmailTaken(db, user)
                    THEN Done(r, 400, "DuplicateEmail", None)
                    ELSE r]
    /\ UNCHANGED <<db, issued, now, sessions, deleted>>

\* The user document register() builds (its created_at is read by nothing).
NewUserDoc(user, session_token) ==
    [_id |-> UserId(user.email), type |-> "user", email |-> user.email,
     username |-> user.username, password_hash |-> hash_password(user.password),
     session_token |-> session_token, tasks |-> <<>>]

\* History: `session_token` was handed out for the user by `endpoint`.
Session(session_token, user_doc, endpoint) ==
    [token |-> session_token, email |-> user_doc.email, by |-> endpoint]

\* The body of a successful register or login response.
SessionBody(user_doc, session_token) ==
    Some([user_id |-> user_doc._id, username |-> user_doc.username,
          email |-> user_doc.email, session_token |-> session_token])

\* session_token = generate_session_token(); db.save(user_doc).  The document
\* carries no _rev: the save is refused (ResourceConflict, answered 500 by
\* the `except Exception` clause) when the id is stored by then.
RegisterSave(w, env) ==
    /\ At(w, "register_save")
    /\ \E session_token \in generate_session_token(env) :
          LET user_doc == NewUserDoc(req[w].args, session_token) IN
          /\ issued' = issued \cup {session_token}
          /\ IF InDb(db, user_doc._id)
             THEN /\ db' = db
                  /\ req' = [req EXCEPT ![w] = Done(req[w], 500, "StorageFailure", None)]
                  /\ sessions' = sessions
             ELSE /\ db' = Put(db, user_doc)
                  /\ req' = [Invalidate(req, w, user_doc._id) EXCEPT ![w] =
                               Done(Wrote(req[w], user_doc._id), 200, "ok", SessionBody(user_doc, session_token))]
                  /\ sessions' = sessions \cup {Session(session_token, user_doc, "register")}
    /\ UNCHANGED <<now, deleted>>

\* ---------------------------------------------------------- POST /api/login
\* if user_id not in db: raise HTTPException(401); user_doc = db[user_id];
\* if not verify_password(...): raise HTTPException(401).  A user document is
\* never deleted, so the existence check and the read are one access.
StartLogin(w, env) ==
    /\ Free(w)
    /\ \E user \in env.logins :
          LET r == Begin("login", "login_save", user, None)
              user_id == UserId(user.email) IN
          req' = [req EXCEPT ![w] =
                    IF ~InDb(db, user_id)
                    THEN Done(r, 401, "UserNotFound", None)
                    ELSE IF ~verify_password(user.password, db[user_id].password_hash)
                    THEN Done(r, 401, "InvalidPassword", None)
                    ELSE [r EXCEPT !.user_doc = Some(Copy(db[user_id]))]]
    /\ UNCHANGED <<db, issued, now, sessions, deleted>>

WithTokenForgotten(user_doc, session_token) == user_doc

\* user_doc["session_token"] = session_token
WithToken(user_doc, session_token) ==
    [user_doc EXCEPT !.session_token = session_token]

\* session_token = generate_session_token(); user_doc["session_token"] = ...;
\* db.save(user_doc): refused (500) when the copy's _rev is not the stored one.
LoginSave(w, env) ==
    /\ At(w, "login_save")
    /\ \E session_token \in generate_session_token(env) :
          LET copy == req[w].user_doc[1]
              user_doc == WithToken(copy.doc, session_token) IN
          /\ issued' = issued \cup {session_token}
          /\ IF ~copy.rev_ok
             THEN /\ db' = db
                  /\ req' = [req EXCEPT ![w] = Done(req[w], 500, "StorageFailure", None)]
                  /\ sessions' = sessions
             ELSE /\ db' = Put(db, user_doc)
                  /\ req' = [Invalidate(req, w, user_doc._id) EXCEPT ![w] =
                               Done(Wrote(req[w], user_doc._id), 200, "ok", SessionBody(user_doc, session_token))]
                  /\ sessions' = sessions \cup {Session(session_token, user_doc, "login")}
    /\ UNCHANGED <<now, deleted>>

\* ------------------------------------------------------------ the auth gate
\* The Authorization header is None or its text split at the blanks.
\* authorization.startswith("Bearer ")
StartsWithBearer(words) == Len(words) >= 2 /\ words[1] = "Bearer"

\* The identity of the user document found for the token.
Identity(user_doc) ==
    [email |-> user_doc.email, user_id |-> user_doc._id, username |-> user_doc.username]

\* "Fallback для обратной совместимости: используем токен как email"
Fallback(token) ==
    [email |-> token, user_id |-> UserId(token), username |-> "User"]

\* get_current_user: 401 outside the try block for a missing or malformed
\* header.  Inside it, `raise HTTPException(401)` for a token no user document
\* holds is an Exception like any other: the `except Exception` clause of the
\* same try block catches it and returns the fallback identity.
get_current_user(authorization, d) ==
    IF authorization = None \/ ~StartsWithBearer(authorization[1])
    THEN [status |-> 401, detail |-> "Unauthenticated"]
    ELSE LET token == authorization[1][2]
             users == FindUsersByToken(d, token)
         IN IF users = {}
            THEN [status |-> 200, user |-> Fallback(token)]
            ELSE [status |-> 200, user |-> Identity(d[CHOOSE id \in users : TRUE])]

\* The session tokens stored now.
SessionTokens(d) == {d[id].session_token : id \in {k \in DOMAIN d : d[k].type = "user"}}

\* The headers clients send: no bearer header (env.headers), or a bearer
\* token that is a stored session token, or (env.stale) a session token
\* handed out before and replaced since, or an email (env.emails).
Authorizations(env) ==
    env.headers \cup
    {Some(<<"Bearer", t>>) :
        t \in SessionTokens(db) \cup (IF env.stale THEN {x.token : x \in sessions} ELSE {})
              \cup env.emails}

\* Depends(get_current_user), then the handler at `pc`.
Enter(w, env, op, pc, args) ==
    \E authorization \in Authorizations(env) :
        LET auth == get_current_user(authorization, db)
            a == [args EXCEPT !.authorization = authorization] IN
        req' = [req EXCEPT ![w] =
                  IF auth.status # 200
                  THEN Done(Begin(op, pc, a, None), auth.status, auth.detail, None)
                  ELSE Begin(op, pc, a, Some(auth.user))]

\* The ids clients put in /api/tasks/{task_id}: the id of a stored document
\* (a task or a user) or an id nothing is stored under (every such id is
\* handled alike).
PathIds == DOMAIN db \cup {TaskId("0")}

\* ---------------------------------------------------------- POST /api/tasks
StartCreate(w, env) ==
    /\ Free(w)
    /\ \E task \in env.creates :
          Enter(w, env, "create_task", "create_save", [authorization |-> None, task |-> task])
    /\ UNCHANGED <<db, issued, now, sessions, deleted>>

\* A JSON body is a function from the fields it holds to their values; a
\* pydantic model gives a field the body does not hold its default.
Field(body, f, default) == IF f \in DOMAIN body THEN body[f] ELSE default

\* TaskCreate(**body): category defaults to "Дом" (written "Dom" here), date,
\* time and notes to None.
TaskCreate(body) ==
    [title |-> body.title, category |-> Field(body, "category", Some("Dom")),
     date |-> Field(body, "date", None), time |-> Field(body, "time", None),
     notes |-> Field(body, "notes", None)]

\* The task document create_task builds.
NewTaskDoc(task_id, user_email, task, timestamp) ==
    [_id |-> task_id, type |-> "task", user_email |-> user_email,
     title |-> task.title, category |-> task.category, date |-> task.date,
     time |-> task.time, notes |-> task.notes, completed |-> Some(FALSE),
     created_at |-> timestamp, updated_at |-> timestamp]

\* task_id = f"task_{uuid.uuid4()}"; timestamp = utcnow(); db.save(task_doc)
CreateSave(w, env) ==
    /\ At(w, "create_save")
    /\ \E u \in uuid4(env), timestamp \in utcnow(env) :
          LET task_doc == NewTaskDoc(TaskId(u), req[w].current_user[1].email,
                                     TaskCreate(req[w].args.task), timestamp) IN
          /\ issued' = issued \cup {u}
          /\ now' = timestamp
          /\ db' = Put(db, task_doc)
          /\ req' = [req EXCEPT ![w] = [Wrote(@, task_doc._id) EXCEPT
                                           !.pc = "create_user",
                                           !.task_doc = Some(Copy(task_doc))]]
    /\ UNCHANGED <<sessions, deleted>>

\* user_id = f"user_{user_email}"; if user_id in db: user_doc = db[user_id]
CreateUser(w) ==
    /\ At(w, "create_user")
    /\ LET user_id == UserId(req[w].current_user[1].email)
           task_doc == req[w].task_doc[1].doc IN
       req' = [req EXCEPT ![w] =
                 IF InDb(db, user_id)
                 THEN [@ EXCEPT !.pc = "create_user_save",
                                !.user_doc = Some(Copy(db[user_id]))]
                 ELSE Done(@, 200, "ok", Some(task_doc))]
    /\ UNCHANGED <<db, issued, now, sessions, deleted>>

WithTaskRenamed(user_doc, task_id) ==
    [user_doc EXCEPT !.tasks = Append(@, task_id), !.username = "User"]

\* user_doc["tasks"].append(task_id)
WithTask(user_doc, task_id) == [user_doc EXCEPT !.tasks = Append(@, task_id)]

\* db.save(user_doc); a refused save is answered 500 (`except Exception`).
CreateUserSave(w) ==
    /\ At(w, "create_user_save")
    /\ LET copy == req[w].user_doc[1]
           task_doc == req[w].task_doc[1].doc
           user_doc == WithTask(copy.doc, task_doc._id) IN
       IF ~copy.rev_ok
       THEN /\ db' = db
            /\ req' = [req EXCEPT ![w] = Done(@, 500, "StorageFailure", None)]
       ELSE /\ db' = Put(db, user_doc)
            /\ req' = [Invalidate(req, w, user_doc._id) EXCEPT ![w] =
                         Done(Wrote(req[w], user_doc._id), 200, "ok", Some(task_doc))]
    /\ UNCHANGED <<issued, now, sessions, deleted>>

\* ----------------------------------------------------------- GET /api/tasks
StartList(w, env) ==
    /\ Free(w)
    /\ Enter(w, env, "get_user_tasks", "list_find", [authorization |-> None])
    /\ UNCHANGED <<db, issued, now, sessions, deleted>>

SelectedAnyOwner(doc, user_email) == doc.type = "task"

\* The selector {"type": "task", "user_email": user_email}.
Selected(doc, user_email) == doc.type = "task" /\ doc.user_email = user_email

\* db.find(query): the selected documents in the order of their ids (the
\* order of the primary index, which a find without sort goes through).
RECURSIVE FindFrom(_, _, _, _)
FindFrom(d, user_email, n, max) ==
    IF n > max THEN <<>>
    ELSE LET id == TaskId(Uuid(n)) IN
         (IF InDb(d, id) /\ Selected(d[id], user_email) THEN <<d[id]>> ELSE <<>>)
            \o FindFrom(d, user_email, n + 1, max)

FindTasks(d, user_email, env) == FindFrom(d, user_email, 1, env.max_uuid)

BeforeAscending(x, y) == x.created_at <= y.created_at

\* tasks.sort(key=lambda x: x.get("created_at", ""), reverse=True): a stable
\* sort, so tasks of equal created_at keep the order the find gave them.
Before(x, y) == x.created_at >= y.created_at

RECURSIVE InsertSorted(_, _)
InsertSorted(sorted, x) ==
    IF sorted = <<>> THEN <<x>>
    ELSE IF Before(Head(sorted), x) THEN <<Head(sorted)>> \o InsertSorted(Tail(sorted), x)
    ELSE <<x>> \o sorted

RECURSIVE SortTasks(_)
SortTasks(tasks) ==
    IF tasks = <<>> THEN <<>>
    ELSE InsertSorted(SortTasks(SubSeq(tasks, 1, Len(tasks) - 1)), tasks[Len(tasks)])

ListFind(w, env) ==
    /\ At(w, "list_find")
    /\ LET tasks == SortTasks(FindTasks(db, req[w].current_user[1].email, env)) IN
       req' = [req EXCEPT ![w] = Done(@, 200, "ok", Some(tasks))]
    /\ UNCHANGED <<db, issued, now, sessions, deleted>>

\* ------------------------------------------------- PUT /api/tasks/{task_id}
\* TaskUpdate(**body): every field defaults to None, and a field the body
\* holds as null is None as well.
TaskUpdate(body) ==
    [title |-> Field(body, "title", None), category |-> Field(body, "category", None),
     date |-> Field(body, "date", None), time |-> Field(body, "time", None),
     notes |-> Field(body, "notes", None), completed |-> Field(body, "completed", None)]

\* if task_id not in db: raise HTTPException(404)
CheckTask(w, pc) ==
    LET r == req[w] IN
    req' = [req EXCEPT ![w] =
              IF ~InDb(db, r.args.task_id)
              THEN Done(r, 404, "TaskNotFound", None)
              ELSE [r EXCEPT !.pc = pc]]

\* task_doc.get("user_email") != user_email
NotOwner(task_doc, user_email) == Get(task_doc, "user_email") # Some(user_email)

\* task_doc = db[task_id] (ResourceNotFound, answered 500, when the document
\* was deleted after the check); if not the owner's: raise HTTPException(403)
ReadTask(w, pc) ==
    LET r == req[w]
        task_id == r.args.task_id IN
    req' = [req EXCEPT ![w] =
              IF ~InDb(db, task_id)
              THEN Done(r, 500, "StorageFailure", None)
              ELSE IF NotOwner(db[task_id], r.current_user[1].email)
              THEN Done(r, 403, "Forbidden", None)
              ELSE [r EXCEPT !.pc = pc, !.task_doc = Some(Copy(db[task_id]))]]

StartUpdate(w, env) ==
    /\ Free(w)
    /\ \E task_id \in PathIds, body \in env.updates :
          Enter(w, env, "update_task", "update_check",
                [authorization |-> None, task_id |-> task_id, task_update |-> body])
    /\ UNCHANGED <<db, issued, now, sessions, deleted>>

UpdateCheck(w) ==
    /\ At(w, "update_check")
    /\ CheckTask(w, "update_read")
    /\ UNCHANGED <<db, issued, now, sessions, deleted>>

UpdateRead(w) ==
    /\ At(w, "update_read")
    /\ ReadTask(w, "update_save")
    /\ UNCHANGED <<db, issued, now, sessions, deleted>>

OverwriteAlways(old, new) == new

\* if task_update.<field> is not None: task_doc[<field>] = task_update.<field>
Overwrite(old, new) == IF new # None THEN new ELSE old

UpdatedAsNew(task_doc, task_update, timestamp) ==
    [task_doc EXCEPT !.completed = Overwrite(@, task_update.completed),
                     !.created_at = timestamp + 1, !.updated_at = timestamp]

\* The six assignments of update_task and task_doc["updated_at"] = utcnow().
Updated(task_doc, task_update, timestamp) ==
    [task_doc EXCEPT !.title = Overwrite(@, task_update.title),
                     !.category = Overwrite(@, task_update.category),
                     !.date = Overwrite(@, task_update.date),
                     !.time = Overwrite(@, task_update.time),
                     !.notes = Overwrite(@, task_update.notes),
                     !.completed = Overwrite(@, task_update.completed),
                     !.updated_at = timestamp]

\* db.save(task_doc): refused (500) when the copy's _rev is not the stored one.
UpdateSave(w, env) ==
    /\ At(w, "update_save")
    /\ \E timestamp \in utcnow(env) :
          LET copy == req[w].task_doc[1]
              task_doc == Updated(copy.doc, TaskUpdate(req[w].args.task_update), timestamp) IN
          /\ now' = timestamp
          /\ IF ~copy.rev_ok
             THEN /\ db' = db
                  /\ req' = [req EXCEPT ![w] = Done(@, 500, "StorageFailure", None)]
             ELSE /\ db' = Put(db, task_doc)
                  /\ req' = [Invalidate(req, w, task_doc._id) EXCEPT ![w] =
                               Done(Wrote(req[w], task_doc._id), 200, "ok", Some(task_doc))]
    /\ UNCHANGED <<issued, sessions, deleted>>

\* ---------------------------------------------- DELETE /api/tasks/{task_id}
StartDelete(w, env) ==
    /\ Free(w)
    /\ \E task_id \in PathIds :
          Enter(w, env, "delete_task", "delete_check",
                [authorization |-> None, task_id |-> task_id])
    /\ UNCHANGED <<db, issued, now, sessions, deleted>>

DeleteCheck(w) ==
    /\ At(w, "delete_check")
    /\ CheckTask(w, "delete_read")
    /\ UNCHANGED <<db, issued, now, sessions, deleted>>

DeleteRead(w) ==
    /\ At(w, "delete_read")
    /\ ReadTask(w, "delete_task")
    /\ UNCHANGED <<db, issued, now, sessions, deleted>>

\* db.delete(task_doc): refused (500) when the copy's _rev is not the stored one.
DeleteTask(w) ==
    /\ At(w, "delete_task")
    /\ LET copy == req[w].task_doc[1] IN
       IF ~copy.rev_ok
       THEN /\ db' = db
            /\ req' = [req EXCEPT ![w] = Done(@, 500, "StorageFailure", None)]
       ELSE /\ db' = Remove(db, copy.doc._id)
            /\ req' = [Invalidate(req, w, copy.doc._id) EXCEPT ![w] =
                         [Wrote(req[w], copy.doc._id) EXCEPT !.pc = "delete_user"]]
    /\ UNCHANGED <<issued, now, sessions, deleted>>

\* x in list
Contains(list, x) == \E i \in DOMAIN list : list[i] = x

\* A create_task request that has saved the task `task_id` and not answered.
Creating(task_id) ==
    {v \in Workers : /\ req[v].pc \in {"create_user", "create_user_save"}
                     /\ req[v].task_doc[1].doc._id = task_id}

\* History: the delete of `task_id` by worker w is answered 200; `racing`
\* says whether the request creating that task has not answered yet, and
\* `listed` whether the delete took the id out of the owner's tasks list.
Deleted(task_id, w) ==
    [task_id |-> task_id, user_email |-> req[w].task_doc[1].doc.user_email,
     racing |-> Creating(task_id) # {}, listed |-> req[w].pc = "delete_user_save"]

\* if user_id in db: user_doc = db[user_id];
\* if "tasks" in user_doc and task_id in user_doc["tasks"]: ...
DeleteUser(w) ==
    /\ At(w, "delete_user")
    /\ LET user_id == UserId(req[w].current_user[1].email)
           task_id == req[w].args.task_id IN
       IF InDb(db, user_id) /\ Contains(db[user_id].tasks, task_id)
       THEN /\ req' = [req EXCEPT ![w] = [@ EXCEPT !.pc = "delete_user_save",
                                                   !.user_doc = Some(Copy(db[user_id]))]]
            /\ deleted' = deleted
       ELSE /\ req' = [req EXCEPT ![w] = Done(@, 200, "ok", None)]
            /\ deleted' = deleted \cup {Deleted(task_id, w)}
    /\ UNCHANGED <<db, issued, now, sessions>>

\* list.remove(x): the list without the first item equal to x.
RECURSIVE ListRemove(_, _)
ListRemove(list, x) ==
    IF list = <<>> THEN <<>>
    ELSE IF Head(list) = x THEN Tail(list)
    ELSE <<Head(list)>> \o ListRemove(Tail(list), x)

WithoutTaskKept(user_doc, task_id) == user_doc

\* user_doc["tasks"].remove(task_id)
WithoutTask(user_doc, task_id) == [user_doc EXCEPT !.tasks = ListRemove(@, task_id)]

\* db.save(user_doc): refused (500) when the copy's _rev is not the stored one.
DeleteUserSave(w) ==
    /\ At(w, "delete_user_save")
    /\ LET copy == req[w].user_doc[1]
           user_doc == WithoutTask(copy.doc, req[w].args.task_id) IN
       IF ~copy.rev_ok
       THEN /\ db' = db
            /\ req' = [req EXCEPT ![w] = Done(@, 500, "StorageFailure", None)]
            /\ deleted' = deleted
       ELSE /\ db' = Put(db, user_doc)
            /\ req' = [Invalidate(req, w, user_doc._id) EXCEPT ![w] =
                         Done(Wrote(req[w], user_doc._id), 200, "ok", None)]
            /\ deleted' = deleted \cup {Deleted(req[w].args.task_id, w)}
    /\ UNCHANGED <<issued, now, sessions>>

\* ------------------------------------------------------- the specifications
Step(w, env) ==
    \/ StartRegister(w, env) \/ RegisterSave(w, env)
    \/ StartLogin(w, env) \/ LoginSave(w, env)
    \/ StartCreate(w, env) \/ CreateSave(w, env) \/ CreateUser(w) \/ CreateUserSave(w)
    \/ StartList(w, env) \/ ListFind(w, env)
    \/ StartUpdate(w, env) \/ UpdateCheck(w) \/ UpdateRead(w) \/ UpdateSave(w, env)
    \/ StartDelete(w, env) \/ DeleteCheck(w) \/ DeleteRead(w) \/ DeleteTask(w)
    \/ DeleteUser(w) \/ DeleteUserSave(w)
    \/ Return(w)

\* Spec: the requests are served one after the other.
Env ==
    [max_uuid |-> MaxUuid, any_uuid |-> FALSE, max_clock |-> 0,
     headers |-> {None, Some(<<"Basic", "x">>)}, stale |-> TRUE, emails |-> Emails,
     registers |-> {[email |-> "a@x", password |-> "p", username |-> "Ann"],
                    [email |-> "b@x", password |-> "q", username |-> "Bob"]},
     logins |-> {[email |-> e, password |-> p] : e \in Emails, p \in Passwords},
     creates |-> {[title |-> Some("t")]},
     updates |-> {[completed |-> Some(TRUE)]}]

Next == Step(1, Env)

Spec == Init /\ [][Next]_vars

\* ConcSpec: two requests at a time.
ConcEnv ==
    [max_uuid |-> ConcMaxUuid, any_uuid |-> FALSE, max_clock |-> 0,
     headers |-> {}, stale |-> FALSE, emails |-> {},
     registers |-> {[email |-> "a@x", password |-> "p", username |-> "Ann"]},
     logins |-> {[email |-> "a@x", password |-> "p"]},
     creates |-> {[title |-> Some("t")]},
     updates |-> {[completed |-> Some(TRUE)]}]

ConcNext == \E w \in Workers : Step(w, ConcEnv)

ConcSpec == Init /\ [][ConcNext]_vars

\* ListSpec: registration, creation and listing, one request after the other,
\* with a clock that advances and task ids in any order.
ListEnv ==
    [max_uuid |-> ListMaxUuid, any_uuid |-> TRUE, max_clock |-> ListMaxClock,
     headers |-> {}, stale |-> FALSE, emails |-> {"b@x"},
     registers |-> {[email |-> "a@x", password |-> "p", username |-> "Ann"]},
     logins |-> {},
     creates |-> {[title |-> Some("t")]},
     updates |-> {}]

ListNext ==
    \/ StartRegister(1, ListEnv) \/ RegisterSave(1, ListEnv)
    \/ StartCreate(1, ListEnv) \/ CreateSave(1, ListEnv)
    \/ CreateUser(1) \/ CreateUserSave(1)
    \/ StartList(1, ListEnv) \/ ListFind(1, ListEnv)
    \/ Return(1)

ListSpec == Init /\ [][ListNext]_vars

\* UpdateSpec: registration, creation and update, one request after the
\* other, with a clock that advances.  The bodies of the updates: the empty
\* one, one field with a value, one field as null, and all six fields.
Fields == {"title", "category", "date", "time", "notes", "completed"}

UpdateBodies ==
    {[f \in {} |-> None]}
    \cup {[title |-> Some("t2")], [notes |-> Some("")], [completed |-> Some(TRUE)]}
    \cup {[g \in {f} |-> None] : f \in Fields}
    \cup {[title |-> Some("t2"), category |-> Some("c2"), date |-> Some("d2"),
           time |-> Some("h2"), notes |-> Some(""), completed |-> Some(TRUE)]}

UpdateEnv ==
    [max_uuid |-> UpdateMaxUuid, any_uuid |-> FALSE, max_clock |-> UpdateMaxClock,
     headers |-> {}, stale |-> FALSE, emails |-> {},
     registers |-> {[email |-> "a@x", password |-> "p", username |-> "Ann"]},
     logins |-> {},
     creates |-> {[title |-> Some("t"), notes |-> Some("n")]},
     updates |-> UpdateBodies]

UpdateNext ==
    \/ StartRegister(1, UpdateEnv) \/ RegisterSave(1, UpdateEnv)
    \/ StartCreate(1, UpdateEnv) \/ CreateSave(1, UpdateEnv)
    \/ CreateUser(1) \/ CreateUserSave(1)
    \/ StartUpdate(1, UpdateEnv) \/ UpdateCheck(1) \/ UpdateRead(1)
    \/ UpdateSave(1, UpdateEnv)
    \/ Return(1)

UpdateSpec == Init /\ [][UpdateNext]_vars

\* FrameSpec: every operation, one request after the other, with a clock that
\* advances; one registered user, and a second identity by its email.
FrameEnv ==
    [max_uuid |-> FrameMaxUuid, any_uuid |-> FALSE, max_clock |-> FrameMaxClock,
     headers |-> {}, stale |-> FALSE, emails |-> {"b@x"},
     registers |-> {[email |-> "a@x", password |-> "p", username |-> "Ann"]},
     logins |-> {[email |-> "a@x", password |-> "p"]},
     creates |-> {[title |-> Some("t")]},
     updates |-> {[completed |-> Some(TRUE)]}]

FrameNext == Step(1, FrameEnv)

FrameSpec == Init /\ [][FrameNext]_vars

\* RegisterSpec: two requests at a time, registrations and logins of one
\* email with two passwords and usernames.
RegisterEnv ==
    [max_uuid |-> RegisterMaxUuid, any_uuid |-> FALSE, max_clock |-> 0,
     headers |-> {}, stale |-> FALSE, emails |-> {},
     registers |-> {[email |-> "a@x", password |-> "p", username |-> "Ann"],
                    [email |-> "a@x", password |-> "q", username |-> "Bob"]},
     logins |-> {[email |-> "a@x", password |-> p] : p \in Passwords},
     creates |-> {}, updates |-> {}]

RegisterNext ==
    \E w \in Workers :
        \/ StartRegister(w, RegisterEnv) \/ RegisterSave(w, RegisterEnv)
        \/ StartLogin(w, RegisterEnv) \/ LoginSave(w, RegisterEnv)
        \/ Return(w)

RegisterSpec == Init /\ [][RegisterNext]_vars

\* =================================================================== claims
TaskOps == {"create_task", "get_user_tasks", "update_task", "delete_task"}

\* The bearer token of a request to a task endpoint, None without one.
Token(r) ==
    IF r.args.authorization # None /\ StartsWithBearer(r.args.authorization[1])
    THEN Some(r.args.authorization[1][2]) ELSE None

\* The requests to task endpoints that are being served or just answered.
TaskRequests == {w \in Workers : req[w].pc # "idle" /\ req[w].op \in TaskOps}

Answered(w, op, status) ==
    req[w].pc = "done" /\ req[w].op = op /\ req[w].status = status

\* The user document of `email`, when there is one.
HasUser(d, email) == InDb(d, UserId(email)) /\ d[UserId(email)].type = "user"

\* What the auth gate makes of the bearer token t.
Resolve(t, d) == get_current_user(Some(<<"Bearer", t>>), d)

\* ------------------------------------------------------------------- C1
\* C1: a request to a task endpoint whose bearer token is no user's stored
\* session_token is answered 401 without an identity, and its handler does
\* not run.  (Requests are served one at a time in Spec, and no task handler
\* writes a session_token, so the stored tokens are those the gate saw.)
C1_UnknownTokenUnauthenticated ==
    \A w \in TaskRequests :
        (Token(req[w]) # None /\ Token(req[w])[1] \notin SessionTokens(db))
            => /\ Answered(w, req[w].op, 401)
               /\ req[w].current_user = None

\* ------------------------------------------------------------------- C2
\* The owners of the tasks a successful request returned, changed or removed.
Touched(r) ==
    IF r.pc # "done" \/ r.status # 200 THEN {}
    ELSE CASE r.op = "get_user_tasks" -> {r.body[1][i].user_email : i \in DOMAIN r.body[1]}
           [] r.op = "update_task" -> {r.body[1].user_email}
           [] r.op = "delete_task" ->
                {x.user_email : x \in {y \in deleted : y.task_id = r.args.task_id}}
           [] OTHER -> {}

\* C2: a request that returned, changed or removed a task of a registered
\* user A carried the session_token stored for A.
C2_OnlyOwnersTokenTouches ==
    \A w \in Workers : \A A \in Touched(req[w]) :
        HasUser(db, A) => Token(req[w]) = Some(db[UserId(A)].session_token)

\* ------------------------------------------------------------------- C3
\* The list operation run as B holds tasks of B only.
C3_ListHoldsOwnTasks ==
    \A w \in Workers :
        Answered(w, "get_user_tasks", 200) =>
            \A i \in DOMAIN req[w].body[1] :
                req[w].body[1][i].user_email = req[w].current_user[1].email

\* An update or delete run as B that reads a task of another owner is
\* answered 403, and the request has changed nothing in the store.
C3_ForeignTaskForbidden ==
    \A w \in Workers :
        (/\ req[w].pc \in {"update_check", "update_read", "delete_check", "delete_read"}
         /\ req'[w].pc # req[w].pc)
        => /\ db' = db
           /\ (/\ req[w].pc \in {"update_read", "delete_read"}
               /\ InDb(db, req[w].args.task_id)
               /\ db[req[w].args.task_id].type = "task"
               /\ db[req[w].args.task_id].user_email # req[w].current_user[1].email)
              => (req'[w].pc = "done" /\ req'[w].status = 403)

\* No handler holds, past its ownership check, a task of another owner.
C3_HoldsOwnTask ==
    \A w \in Workers :
        (req[w].pc \notin {"idle", "done"} /\ req[w].op \in TaskOps /\ req[w].task_doc # None)
            => req[w].task_doc[1].doc.user_email = req[w].current_user[1].email

\* C3: for identities A # B, a task created under A is never in a list run
\* as B, and an update or delete of it run as B is answered 403 and leaves
\* the store as it was.
C3_PerOwnerIsolation ==
    /\ [](C3_ListHoldsOwnTasks /\ C3_HoldsOwnTask)
    /\ [][C3_ForeignTaskForbidden]_vars

\* An update run as B of a stored task of A was just answered 403.
C3_Witness ==
    \E w \in Workers :
        /\ Answered(w, "update_task", 403)
        /\ InDb(db, req[w].args.task_id)
        /\ db[req[w].args.task_id].type = "task"
        /\ db[req[w].args.task_id].user_email # req[w].current_user[1].email
        /\ HasUser(db, db[req[w].args.task_id].user_email)
        /\ HasUser(db, req[w].current_user[1].email)

\* ------------------------------------------------------------------- C4
\* The token t gives the identity of the user document U.
ResolvesTo(t, U, d) ==
    /\ Resolve(t, d).status = 200
    /\ Resolve(t, d).user.email = U.email
    /\ Resolve(t, d).user.user_id = U._id

\* The tokens clients can present.
KnownTokens == {x.token : x \in sessions} \cup Emails

\* C4: at most one token value resolves to a given user, and a token handed
\* out to the user earlier and replaced since does not.
C4_OneActiveToken ==
    \A e \in Emails : HasUser(db, e) =>
        LET U == db[UserId(e)] IN
        /\ Cardinality({t \in KnownTokens : ResolvesTo(t, U, db)}) <= 1
        /\ \A x \in sessions :
              (x.email = e /\ x.token # U.session_token) => ~ResolvesTo(x.token, U, db)

\* ------------------------------------------------------------------- C5
\* The sessions a successful login handed out that no later login replaced.
LoginSessions == {x \in sessions : x.by = "login" /\ HasUser(db, x.email)
                                   /\ db[UserId(x.email)].session_token = x.token}

\* The gate gives such a token the identity of its user, and so did it for
\* every request being served that carries it.
C5_LoginTokenResolves ==
    \A x \in LoginSessions :
        LET U == db[UserId(x.email)] IN
        /\ Resolve(x.token, db) = [status |-> 200, user |-> Identity(U)]
        /\ \A w \in TaskRequests :
              Token(req[w]) = Some(x.token) => req[w].current_user = Some(Identity(U))

\* The token a successful login returns is the one it stored, and a stored
\* token is replaced by a successful login of that user only.
C5_TokenReplacedByLoginOnly ==
    /\ \A w \in Workers :
          (req[w].pc # "done" /\ req'[w].pc = "done" /\ req'[w].op = "login"
              /\ req'[w].status = 200)
          => /\ HasUser(db', req'[w].args.email)
             /\ db'[UserId(req'[w].args.email)].session_token = req'[w].body[1].session_token
             /\ Session(req'[w].body[1].session_token, db'[UserId(req'[w].args.email)],
                        "login") \in sessions' \ sessions
    /\ \A e \in Emails :
          (HasUser(db, e) /\ db'[UserId(e)].session_token # db[UserId(e)].session_token)
          => \E x \in sessions' \ sessions :
                x.by = "login" /\ x.email = e /\ x.token = db'[UserId(e)].session_token

\* C5: the token a successful login of U returned resolves to U's identity
\* in every later request, until a later successful login of U replaces it.
C5_LoginTokenAccepted ==
    /\ []C5_LoginTokenResolves
    /\ [][C5_TokenReplacedByLoginOnly]_vars

\* A request carrying a token from a login is served under the user's identity.
C5_Witness ==
    \E x \in LoginSessions : \E w \in TaskRequests :
        /\ Token(req[w]) = Some(x.token)
        /\ req[w].pc = "list_find"
        /\ req[w].current_user = Some(Identity(db[UserId(x.email)]))
        /\ \E y \in sessions : y.email # x.email

\* ------------------------------------------------------------------- C6
\* The step that takes a login request in.
LoginArrives(w) == req[w].pc = "idle" /\ req'[w].pc # "idle" /\ req'[w].op = "login"

LoginRefused(w, detail) ==
    /\ req'[w].pc = "done" /\ req'[w].status = 401 /\ req'[w].detail = detail
    /\ req'[w].body = None
    /\ db' = db /\ issued' = issued /\ sessions' = sessions
    /\ \A t \in KnownTokens : Resolve(t, db') = Resolve(t, db)

\* C6: a login for an unregistered email is answered 401 (UserNotFound), one
\* with a password whose hash is not the stored password_hash 401
\* (InvalidPassword); no token is issued and the store is as it was.
C6_FailedLoginChangesNothing ==
    [][\A w \in Workers : LoginArrives(w) =>
          LET user == req'[w].args IN
          /\ ~HasUser(db, user.email) => LoginRefused(w, "UserNotFound")
          /\ (HasUser(db, user.email)
                /\ hash_password(user.password) # db[UserId(user.email)].password_hash)
             => LoginRefused(w, "InvalidPassword")]_vars

\* A login with a wrong password was just refused; the user's token resolves.
C6_Witness ==
    \E w \in Workers :
        /\ Answered(w, "login", 401) /\ req[w].detail = "InvalidPassword"
        /\ HasUser(db, req[w].args.email)
        /\ ResolvesTo(db[UserId(req[w].args.email)].session_token,
                      db[UserId(req[w].args.email)], db)

\* ------------------------------------------------------------------- C7
RegisterArrives(w) == req[w].pc = "idle" /\ req'[w].pc # "idle" /\ req'[w].op = "register"

C7_DuplicateRefused ==
    \A w \in Workers :
        (RegisterArrives(w) /\ HasUser(db, req'[w].args.email))
        => /\ req'[w].pc = "done" /\ req'[w].status = 400
           /\ req'[w].detail = "DuplicateEmail"
           /\ db' = db /\ sessions' = sessions

C7_OneUserPerEmail ==
    \A k1, k2 \in DOMAIN db :
        (db[k1].type = "user" /\ db[k2].type = "user" /\ db[k1].email = db[k2].email)
            => k1 = k2

\* C7: registering an email that has a user record is answered 400
\* (DuplicateEmail) and leaves the store as it was; every state holds at most
\* one user record per email.
C7_DuplicateEmail ==
    /\ []C7_OneUserPerEmail
    /\ [][C7_DuplicateRefused]_vars

\* A second registration of a registered email was just refused.
C7_Witness ==
    \E w \in Workers :
        /\ Answered(w, "register", 400)
        /\ HasUser(db, req[w].args.email)
        /\ db[UserId(req[w].args.email)].tasks # <<>>

\* ------------------------------------------------------------------- C8
\* The tasks stored under the caller's email.
OwnTasks(d, email) ==
    {d[k] : k \in {id \in DOMAIN d : d[id].type = "task" /\ d[id].user_email = email}}

Items(seq) == {seq[i] : i \in DOMAIN seq}

\* No list answer holds the task, and the task is not stored.
C8_NeverListed(x) ==
    /\ ~InDb(db, x.task_id)
    /\ \A w \in Workers :
          Answered(w, "get_user_tasks", 200)
             => \A i \in DOMAIN req[w].body[1] : req[w].body[1][i]._id # x.task_id

\* The task's id is in no user's tasks list.
C8_NotInTasksList(x) ==
    \A k \in DOMAIN db : db[k].type = "user" => ~Contains(db[k].tasks, x.task_id)

\* C8 as stated: after a delete of T answered 200, T is never listed and T's
\* id is in no tasks list, whatever the other requests do.
C8_DeletedStaysDeleted ==
    \A x \in deleted : C8_NeverListed(x) /\ C8_NotInTasksList(x)

\* C8 (amended): after a delete of T answered 200, T is never stored or listed
\* again, under any interleaving; T's id is in no tasks list in any later
\* state unless the create_task request for T had not answered yet when the
\* delete was answered.
C8_DeletedStaysDeletedUnlessCreating ==
    \A x \in deleted : C8_NeverListed(x) /\ (~x.racing => C8_NotInTasksList(x))

\* The owner lists their tasks after a delete that took the id out of the
\* tasks list and that raced with no create, while another task is left.
C8_Witness ==
    \E x \in deleted, w \in Workers :
        /\ ~x.racing /\ x.listed
        /\ HasUser(db, x.user_email)
        /\ db[UserId(x.user_email)].tasks # <<>>
        /\ Answered(w, "get_user_tasks", 200)
        /\ req[w].current_user[1].email = x.user_email
        /\ req[w].body[1] # <<>>

\* ------------------------------------------------------------------- C9
ListAnswer(w) == req[w].body[1]

Caller(w) == req[w].current_user[1].email

Position(tasks, id) == CHOOSE i \in DOMAIN tasks : tasks[i]._id = id

\* The answer holds the caller's tasks, each once, and nothing else.
C9_ExactlyOwnTasks ==
    \A w \in Workers :
        Answered(w, "get_user_tasks", 200)
           => /\ Items(ListAnswer(w)) = OwnTasks(db, Caller(w))
              /\ Len(ListAnswer(w)) = Cardinality(OwnTasks(db, Caller(w)))

C9_NonIncreasing ==
    \A w \in Workers :
        Answered(w, "get_user_tasks", 200)
           => \A i, j \in DOMAIN ListAnswer(w) :
                 i < j => ListAnswer(w)[i].created_at >= ListAnswer(w)[j].created_at

\* The tasks list of a registered owner holds the ids in the order the
\* (sequential) create requests appended them.  Of two tasks of that list the
\* later created comes first in the answer: always (ties = TRUE), or when
\* its created_at is the later one (ties = FALSE).
LaterCreatedFirst(w, ties) ==
    LET order == db[UserId(Caller(w))].tasks IN
    \A i, j \in DOMAIN order :
        (/\ i < j
         /\ ties \/ db[order[i]].created_at < db[order[j]].created_at)
           => Position(ListAnswer(w), order[j]) < Position(ListAnswer(w), order[i])

\* Tasks of equal created_at are in the order the find returned them.
C9_TiesInFindOrder ==
    \A w \in Workers :
        Answered(w, "get_user_tasks", 200)
           => LET found == FindTasks(db, Caller(w), ListEnv) IN
              \A i, j \in DOMAIN ListAnswer(w) :
                 (i < j /\ ListAnswer(w)[i].created_at = ListAnswer(w)[j].created_at)
                    => Position(found, ListAnswer(w)[i]._id)
                          < Position(found, ListAnswer(w)[j]._id)

UpdateSaved(w) ==
    req[w].pc = "update_save" /\ req'[w].pc = "done" /\ req'[w].status = 200

Supplied(w, f) == f \in DOMAIN req[w].args.task_update

SuppliedValue(w, f) == req[w].args.task_update[f]

C10_PresentFieldsStored ==
    \A w \in Workers :
        UpdateSaved(w)
           => LET id == req[w].args.task_id IN
              /\ \A f \in Fields :
                    db'[id][f] = IF Supplied(w, f) THEN SuppliedValue(w, f) ELSE db[id][f]
              /\ db'[id].updated_at = now'
              /\ db'[id].updated_at >= db[id].updated_at

C10_NonNullFieldsStored ==
    \A w \in Workers :
        UpdateSaved(w)
           => LET id == req[w].args.task_id IN
              /\ \A f \in Fields :
                    db'[id][f] = IF Supplied(w, f) /\ SuppliedValue(w, f) # None
                                 THEN SuppliedValue(w, f) ELSE db[id][f]
              /\ db'[id].updated_at = now'
              /\ db'[id].updated_at >= db[id].updated_at

\* C10 as stated: after a successful update each content field holds the
\* supplied value when the request holds the field and the previous value
\* when it does not; updated_at is the time of the update.
C10_PartialUpdate == [][C10_PresentFieldsStored]_vars

\* C10 (amended): after a successful update each content field holds the
\* supplied value when the request holds the field with a value that is not
\* null, and the previous value when the field is absent or null; with an
\* empty partial all six are unchanged; updated_at is the time of the update.
C10_PartialUpdateNonNull == [][C10_NonNullFieldsStored]_vars

\* An empty partial was just answered: the title an earlier update set is
\* still there and updated_at is later than created_at.
C10_Witness ==
    \E w \in Workers :
        /\ Answered(w, "update_task", 200)
        /\ DOMAIN req[w].args.task_update = {}
        /\ req[w].body[1].title = Some("t2")
        /\ req[w].body[1].notes = Some("n")
        /\ req[w].body[1].updated_at > req[w].body[1].created_at
        /\ db[req[w].args.task_id] = req[w].body[1]

\* ------------------------------------------------------------------ C11
IsTask(d, id) == InDb(d, id) /\ d[id].type = "task"

\* A task stored in this step is new and belongs to the identity resolved
\* for the create_task request that stores it.
C11_OwnerIsCreator ==
    \A id \in DOMAIN db' :
        (IsTask(db', id) /\ ~InDb(db, id))
           => \E w \in Workers :
                 /\ req[w].pc = "create_save" /\ req'[w].pc = "create_user"
                 /\ db'[id].user_email = req[w].current_user[1].email
                 /\ db'[id]._id = id

\* A task that stays stored keeps its user_email, id and created_at.
C11_OwnerKept ==
    \A id \in DOMAIN db :
        (IsTask(db, id) /\ InDb(db', id))
           => /\ IsTask(db', id)
              /\ db'[id].user_email = db[id].user_email
              /\ db'[id]._id = db[id]._id
              /\ db'[id].created_at = db[id].created_at

\* C11: the user_email of a new task is the email of the identity resolved
\* for the creating request, and no later operation changes the user_email,
\* id or created_at of an existing task.
C11_OwnerFixedAtCreation == [][C11_OwnerIsCreator /\ C11_OwnerKept]_vars

\* An update of a task was just saved, later than the task was created, while
\* a task of another owner is stored.
C11_Witness ==
    \E w \in Workers :
        /\ Answered(w, "update_task", 200)
        /\ IsTask(db, req[w].args.task_id)
        /\ db[req[w].args.task_id].updated_at > db[req[w].args.task_id].created_at
        /\ db[req[w].args.task_id].completed = Some(TRUE)
        /\ \E id \in DOMAIN db :
              IsTask(db, id) /\ db[id].user_email # db[req[w].args.task_id].user_email

\* ------------------------------------------------------------------ C12
\* An update or delete request of an authenticated caller takes a step.
Checking(w) == req[w].pc \in {"update_check", "delete_check"}

Reading(w) == req[w].pc \in {"update_read", "delete_read"}

Refused(w, status, detail) ==
    /\ req'[w].pc = "done" /\ req'[w].status = status /\ req'[w].detail = detail
    /\ db' = db

\* An id that is not the id of a stored task is answered 404.
C12_NotATaskNotFound ==
    \A w \in Workers :
        (Checking(w) /\ req'[w] # req[w] /\ ~IsTask(db, req[w].args.task_id))
           => Refused(w, 404, "TaskNotFound")

\* 403 is answered exactly for a stored task of another owner.
C12_ForbiddenForeignTask ==
    \A w \in Workers :
        (Reading(w) /\ req'[w] # req[w])
           => ((req'[w].pc = "done" /\ req'[w].status = 403)
                 <=> /\ IsTask(db, req[w].args.task_id)
                     /\ db[req[w].args.task_id].user_email # req[w].current_user[1].email)

\* C12: update and delete answer 404 (TaskNotFound) for every id that is not
\* the id of a stored task, whatever else is stored under it, and 403 exactly
\* for a stored task whose user_email is not the caller's email; the store
\* stays as it was.
C12_NotFoundOrForbidden ==
    [][/\ C12_NotATaskNotFound
       /\ C12_ForbiddenForeignTask
       /\ \A w \in Workers :
             (req[w].pc \notin {"idle", "done"} /\ req[w].op \in {"update_task", "delete_task"}
              /\ req'[w].pc = "done" /\ req'[w].status \in {403, 404})
                => db' = db]_vars

\* ------------------------------------------------------------------ C13
IsUser(d, id) == InDb(d, id) /\ d[id].type = "user"

\* A stored user record stays stored, with its id, email, username and
\* password_hash.
C13_UserKept ==
    \A id \in DOMAIN db :
        IsUser(db, id)
           => /\ IsUser(db', id)
              /\ db'[id]._id = db[id]._id
              /\ db'[id].email = db[id].email
              /\ db'[id].username = db[id].username
              /\ db'[id].password_hash = db[id].password_hash

\* A successful registration stores the user record.
C13_UserStored ==
    \A w \in Workers :
        (req[w].pc = "register_save" /\ req'[w].pc = "done" /\ req'[w].status = 200)
           => /\ IsUser(db', UserId(req[w].args.email))
              /\ db'[UserId(req[w].args.email)].email = req[w].args.email
              /\ db'[UserId(req[w].args.email)].username = req[w].args.username
              /\ db'[UserId(req[w].args.email)].password_hash
                    = hash_password(req[w].args.password)

\* C13: after a successful registration the user record is stored in every
\* later state, and no operation (an update or a delete of the user record's
\* own id included) changes its email, username or password_hash.
C13_UserRecordsPermanent == [][C13_UserStored /\ C13_UserKept]_vars

\* A delete of the user record's own id was just refused; the user has
\* logged in since registering and owns a task.
C13_Witness ==
    \E w \in Workers :
        /\ Answered(w, "delete_task", 403)
        /\ IsUser(db, req[w].args.task_id)
        /\ db[req[w].args.task_id].tasks # <<>>
        /\ \E x \in sessions :
              /\ x.by = "login"
              /\ x.token = db[req[w].args.task_id].session_token

\* ------------------------------------------------------------------ C14
\* How many times x is in the list.
Occurrences(list, x) == Cardinality({i \in DOMAIN list : list[i] = x})

\* The tasks list of the user record holds, each once, the ids of the stored
\* tasks of that user's email and nothing else.
TasksListExact(d, user_doc) ==
    /\ \A i \in DOMAIN user_doc.tasks :
          /\ IsTask(d, user_doc.tasks[i])
          /\ d[user_doc.tasks[i]].user_email = user_doc.email
          /\ Occurrences(user_doc.tasks, user_doc.tasks[i]) = 1
    /\ \A id \in DOMAIN d :
          (IsTask(d, id) /\ d[id].user_email = user_doc.email)
             => Contains(user_doc.tasks, id)

\* C14: in every state in which no request is in progress, the tasks list of
\* each user record holds, each exactly once, precisely the ids of the stored
\* tasks whose user_email is that user's email.
C14_BackReferenceConsistent ==
    (\A w \in Workers : req[w].pc \in {"idle", "done"})
       => \A id \in DOMAIN db : IsUser(db, id) => TasksListExact(db, db[id])

\* ------------------------------------------------------------------ C15
\* The request of worker w was just answered with an error status.
Failed(w) == req[w].pc = "done" /\ req[w].status >= 400

\* C15 as stated: a request answered with an error status has saved and
\* deleted nothing.
C15_FailureIsAtomic ==
    \A w \in Workers : Failed(w) => req[w].wrote = {}

\* What a failing request may have written: nothing, or, answered 500 by
\* create_task or delete_task, the one task record it saved or deleted before
\* its save of the user record was refused.
C15_TaskRecordOnly(w) ==
    \/ req[w].wrote = {}
    \/ /\ req[w].status = 500 /\ req[w].detail = "StorageFailure"
       /\ \/ /\ req[w].op = "create_task"
             /\ Cardinality(req[w].wrote) = 1
             /\ \A id \in req[w].wrote :
                   /\ ~IsUser(db, id)
                   /\ IsTask(db, id) => db[id].user_email = req[w].current_user[1].email
          \/ /\ req[w].op = "delete_task"
             /\ req[w].wrote = {req[w].args.task_id}
             /\ ~InDb(db, req[w].args.task_id)

\* C15 (amended): a request answered with an error status has saved and
\* deleted nothing, except that a create_task or delete_task request answered
\* 500 because its save of the user record was refused has saved, or deleted,
\* its task record, and no user record.
C15_FailureIsAtomicButForTheTask ==
    \A w \in Workers : Failed(w) => C15_TaskRecordOnly(w)

\* A create_task request was just answered 500 and its task is stored, in no
\* tasks list.
C15_Witness ==
    \E w \in Workers :
        /\ Answered(w, "create_task", 500)
        /\ \E id \in req[w].wrote :
              /\ IsTask(db, id)
              /\ HasUser(db, db[id].user_email)
              /\ ~Contains(db[UserId(db[id].user_email)].tasks, id)

\* ------------------------------------------------------------------ C16
\* The register request of worker w, past its existence check, saves.
Saving(w) == req[w].pc = "register_save" /\ req'[w].pc = "done"

\* At most one register request of an email has reported success.
C16_OneSuccess ==
    \A x, y \in sessions :
        (x.by = "register" /\ y.by = "register" /\ x.email = y.email) => x = y

\* The request that saves first reports success, and the user record holds
\* its password_hash, username and session_token.
C16_WinnerStored ==
    \A w \in Workers :
        (Saving(w) /\ ~InDb(db, UserId(req[w].args.email)))
           => /\ req'[w].status = 200
              /\ C7_OneUserPerEmail'
              /\ LET user_doc == db'[UserId(req[w].args.email)] IN
                 /\ user_doc.password_hash = hash_password(req[w].args.password)
                 /\ user_doc.username = req[w].args.username
                 /\ Some(user_doc.session_token) = Some(req'[w].body[1].session_token)

\* The request that saves when the record is stored is answered 400 and
\* changes nothing.
C16_LoserDuplicateEmail ==
    \A w \in Workers :
        (Saving(w) /\ InDb(db, UserId(req[w].args.email)))
           => /\ req'[w].status = 400 /\ req'[w].detail = "DuplicateEmail"
              /\ db' = db

\* C16: of two register requests of one email that both pass the existence
\* check before either saves, exactly one reports success, the one user
\* record holds the password_hash, username and session_token of that request,
\* and the other request is answered 400 (duplicate email).
C16_RegisterRace ==
    /\ []C16_OneSuccess
    /\ [][C16_WinnerStored /\ C16_LoserDuplicateEmail]_vars
====
